---- MODULE Spec2Model ----
(***************************************************************************)
(* forceatlas/layout.py: fa2_layout, the driver that maps node labels to   *)
(* dense indices, writes the graph (and optional initial positions) to     *)
(* temp files, runs the external ForceAtlas2 engine, parses the engine's   *)
(* coordinate file back into label space and removes the temp files.       *)
(*                                                                         *)
(* Every invocation is a process i in Procs stepping through the body of   *)
(* fa2_layout; the file system fs is shared by all invocations.            *)
(***************************************************************************)
EXTENDS Integers, Sequences, FiniteSets, TLC

(* ---------------------------- bounds ----------------------------------- *)
MaxNodes == 2
MaxFaults == 2

Procs == {1, 2}
TempNames == {"tmpa", "tmpb"}
Labels == 0 .. MaxNodes

(* ---------------------------- helpers ---------------------------------- *)
Range(s) == {s[j] : j \in DOMAIN s}

Distinct(s) == \A a, b \in DOMAIN s : a # b => s[a] # s[b]

SeqsUpTo(S, n) == UNION {[1 .. m -> S] : m \in 0 .. n}

None == [some |-> FALSE, v |-> 0]
Some(v) == [some |-> TRUE, v |-> v]

NoExc == [kind |-> "", stage |-> ""]
Exc(kind, stage) == [kind |-> kind, stage |-> stage]

(* str(): decimal rendering of an int *)
Str(n) == ToString(n)

(* ---------------------- lines 124-131: normalisation ------------------- *)
(* Graph.add_nodes_from: insertion-ordered, first occurrence wins *)
RECURSIVE add_nodes_from(_, _)
add_nodes_from(acc, s) ==
    IF s = <<>> THEN acc
    ELSE add_nodes_from(IF Head(s) \in Range(acc) THEN acc ELSE Append(acc, Head(s)),
                        Tail(s))

(* G.nodes() after lines 124-127 *)
NormalizedNodes(G) ==
    IF G.kind = "graph" THEN G.nodes ELSE add_nodes_from(<<>>, G.nodes)

(* a bare collection read as a path: consecutive labels joined by an edge *)
NormalizedEdges_Chain(G) ==
    IF G.kind = "graph" THEN G.edges
    ELSE {<<G.nodes[j], G.nodes[j + 1]>> : j \in 1 .. Len(G.nodes) - 1}

NormalizedEdges(G) ==
    IF G.kind = "graph" THEN G.edges ELSE {}

(* enumerate started at 1 instead of 0 *)
ForwardMapping_FromOne(nodes) ==
    [l \in Range(nodes) |->
        CHOOSE j \in DOMAIN nodes :
            nodes[j] = l /\ \A m \in DOMAIN nodes : nodes[m] = l => m <= j]

(* line 129: {label: index for index, label in enumerate(nodes)};
   a later occurrence of a label overwrites an earlier one *)
ForwardMapping(nodes) ==
    [l \in Range(nodes) |->
        (CHOOSE j \in DOMAIN nodes :
            nodes[j] = l /\ \A m \in DOMAIN nodes : nodes[m] = l => m <= j) - 1]

(* line 130: {index: label for label, index in mapping.items()} *)
InverseMapping(mapping) ==
    [x \in {mapping[l] : l \in DOMAIN mapping} |->
        CHOOSE l \in DOMAIN mapping : mapping[l] = x]

(* line 131: nx.relabel_nodes(G, mapping) *)
relabel_nodes(nodes, edges, mapping) ==
    [nodes |-> {mapping[l] : l \in Range(nodes)},
     edges |-> {<<mapping[e[1]], mapping[e[2]]>> : e \in edges}]

(* ---------------------- lines 138-196: argument vector ----------------- *)
Flag(cond, name) == IF cond THEN <<name>> ELSE <<>>

(* `if seed:` instead of `if seed is not None:` *)
Opt_Truthy(o, name) == IF o.some /\ o.v # 0 THEN <<name, Str(o.v)>> ELSE <<>>

Opt(o, name) == IF o.some THEN <<name, Str(o.v)>> ELSE <<>>

(* `if not threshold` instead of `if threshold is None` *)
StoppingArgs_Truthy(cfg) ==
    IF ~cfg.threshold.some \/ cfg.threshold.v = 0
    THEN <<"--nsteps", Str(cfg.iterations)>>
    ELSE <<"--targetChangePerNode", Str(cfg.threshold.v),
           "--targetSteps", Str(cfg.iterations)>>

(* lines 188-196 *)
StoppingArgs(cfg) ==
    IF ~cfg.threshold.some
    THEN <<"--nsteps", Str(cfg.iterations)>>
    ELSE <<"--targetChangePerNode", Str(cfg.threshold.v),
           "--targetSteps", Str(cfg.iterations)>>

BuildCommand(cfg, graphFile, outputBase) ==
    <<"java", "-Djava.awt.headless=true", "-Xmx8g", "-cp", "classpath",
      "kco.forceatlas2.Main",
      "--input", graphFile,
      "--output", outputBase,
      "--nthreads", Str(cfg.n_jobs),
      "--barnesHutTheta", Str(cfg.theta),
      "--barnesHutUpdateIter", Str(cfg.update_iter),
      "--jitterTolerance", Str(cfg.jitter_tolerance),
      "--gravity", Str(cfg.gravity)>>
    \o Flag(cfg.dim = 2, "--2d")
    \o Opt(cfg.seed, "--seed")
    \o Opt(cfg.splits, "--barnesHutSplits")
    \o Flag(cfg.update_center, "--updateCenter")
    \o Flag(cfg.lin_log_mode, "--linLogMode")
    \o Opt(cfg.repulsion, "--scalingRatio")
    \o Flag(cfg.strong_gravity_mode, "--strongGravityMode")
    \o Flag(cfg.outbound_attraction_distribution, "--outboundAttractionDistribution")
    \o Flag(cfg.directed, "--directed")
    \o StoppingArgs(cfg)

(* value following option name in an argument vector, "" when absent *)
ArgOf(cmd, name) ==
    IF \E j \in 1 .. Len(cmd) - 1 : cmd[j] = name
    THEN cmd[(CHOOSE j \in 1 .. Len(cmd) - 1 : cmd[j] = name) + 1]
    ELSE ""

(* ---------------------------- inputs ----------------------------------- *)
DefaultConfig ==
    [iterations |-> 50, threshold |-> None, directed |-> FALSE, dim |-> 2,
     splits |-> None, theta |-> 1, update_iter |-> 1, update_center |-> FALSE,
     jitter_tolerance |-> 1, lin_log_mode |-> FALSE, repulsion |-> None,
     gravity |-> 1, strong_gravity_mode |-> FALSE,
     outbound_attraction_distribution |-> FALSE, n_jobs |-> 4, seed |-> None]

GraphInputs ==
    {[kind |-> "graph", nodes |-> ns, edges |-> es] :
        ns \in {s \in SeqsUpTo(Labels, MaxNodes) : Distinct(s)},
        es \in {{}}} \cup
    {[kind |-> "graph", nodes |-> ns, edges |-> {<<ns[1], ns[2]>>}] :
        ns \in {s \in SeqsUpTo(Labels, MaxNodes) : Distinct(s) /\ Len(s) >= 2}}

(* a bare collection of labels, repetitions allowed *)
CollectionInputs ==
    {[kind |-> "collection", nodes |-> ns, edges |-> {}] :
        ns \in {s \in SeqsUpTo(Labels, MaxNodes + 1) :
                    Cardinality(Range(s)) <= MaxNodes}}

(* a G that cannot be iterated (e.g. an int): add_nodes_from raises *)
InvalidInput == [kind |-> "invalid", nodes |-> <<>>, edges |-> {}]

NoPos == [given |-> FALSE, keys |-> <<>>, len |-> 2]
PosInputs ==
    {[given |-> TRUE, keys |-> ks, len |-> n] :
        ks \in {s \in SeqsUpTo(Labels, MaxNodes) : Distinct(s)}, n \in {2, 3}}


(* ---------------------------- state ------------------------------------ *)
VARIABLES
    fs,       \* the working directory: path -> [owner, kind, ok, rows, graph]
    args,     \* per invocation: the caller's G, pos and configuration objects,
              \* how many times the environment may fail the invocation and
              \* the names its random name generator may come up with
    pc,       \* per invocation: position in the body of fa2_layout
    loc,      \* per invocation: local variables of fa2_layout
    exc,      \* per invocation: the exception in flight, NoExc when none
    outcome,  \* per invocation: what the caller got back
    hist      \* per invocation: history of what the invocation did

vars == <<fs, args, pc, loc, exc, outcome, hist>>

InitLoc ==
    [bound |-> {}, temp_graph_filename |-> "", output_filename |-> "",
     temp_pos_filename |-> "", mapping |-> <<>>, inverse_mapping |-> <<>>,
     H |-> [nodes |-> {}, edges |-> {}], command |-> <<>>,
     coordinates |-> <<>>, k |-> 0]

InitHist ==
    [created |-> {}, launches |-> 0, exits |-> 0, faults |-> 0, rmFault |-> FALSE,
     intr |-> 0, origErr |-> NoExc, foreign |-> FALSE, parsed |-> <<>>]

InitOutcome == [status |-> "running", value |-> <<>>, error |-> NoExc]

DefaultArgs ==
    [G |-> InvalidInput, pos |-> NoPos, cfg |-> DefaultConfig, budget |-> 0,
     names |-> {}]

(* the invocations in `running` start with arguments drawn from inputs[i] *)
InitWith(running, inputs) ==
    /\ fs = <<>>
    /\ \E a \in [running -> UNION {inputs[i] : i \in running}] :
          /\ \A i \in running : a[i] \in inputs[i]
          /\ args = [i \in Procs |-> IF i \in running THEN a[i] ELSE DefaultArgs]
    /\ pc = [i \in Procs |-> IF i \in running THEN "normalize" ELSE "idle"]
    /\ loc = [i \in Procs |-> InitLoc]
    /\ exc = [i \in Procs |-> NoExc]
    /\ outcome = [i \in Procs |-> InitOutcome]
    /\ hist = [i \in Procs |-> InitHist]

(* ---------------------------- file system ------------------------------ *)
Exists(path) == path \in DOMAIN fs

File(i, kind, ok, rows, graph) ==
    [owner |-> i, kind |-> kind, ok |-> ok, rows |-> rows, graph |-> graph]

NoGraph == [nodes |-> {}, edges |-> {}]

WriteFile(f, path, data) == [p \in DOMAIN f \cup {path} |-> IF p = path THEN data ELSE f[p]]

RemoveFile(f, path) == [p \in DOMAIN f \ {path} |-> f[p]]

(* the invocation touches a file that another invocation put there *)
Foreign(i, path) == Exists(path) /\ fs[path].owner # i

Touch(i, path) ==
    [hist[i] EXCEPT !.foreign = @ \/ Foreign(i, path)]

(* ---------------------------- environment ------------------------------ *)
(* the environment may still fail invocation i: an I/O error, an engine that
   misbehaves, a refused removal, an interruption *)
CanFail(i) == hist[i].faults < args[i].budget

Failed(h) == [h EXCEPT !.faults = @ + 1]

Refused(h) == [h EXCEPT !.faults = @ + 1, !.rmFault = TRUE]

Interrupted(h) == [h EXCEPT !.faults = @ + 1, !.intr = @ + 1]

(* ---------------------------- control ---------------------------------- *)
Goto(i, p) == pc' = [pc EXCEPT ![i] = p]

(* lines 226-227: an Exception raised in the try body is re-raised, then
   the finally clause runs *)
RaiseInTry(i, e, h) ==
    /\ exc' = [exc EXCEPT ![i] = e]
    /\ hist' = [hist EXCEPT ![i] = [h EXCEPT !.origErr = e]]
    /\ Goto(i, "finally")

(* control leaves fa2_layout: the exception in flight, else the return value *)
Leave(i, e) ==
    /\ Goto(i, "done")
    /\ exc' = [exc EXCEPT ![i] = e]
    /\ outcome' = [outcome EXCEPT ![i] =
            IF e # NoExc THEN [@ EXCEPT !.status = "raised", !.error = e,
                                        !.value = <<>>]
            ELSE [@ EXCEPT !.status = "returned"]]

(* line 17-18: temp_filename(), a random candidate name; nothing is created
   and nothing checks that the name is free *)
temp_filename(i) == args[i].names

(* ---------------------- lines 124-131 ---------------------------------- *)
(* the caller's graph relabelled in place (copy=False) *)
Normalize_InPlace(i) ==
    /\ pc[i] = "normalize"
    /\ IF args[i].G.kind = "invalid"
       THEN /\ RaiseInTry(i, Exc("TypeError", "mapping"), hist[i])
            /\ UNCHANGED <<fs, args, loc, outcome>>
       ELSE LET nodes == NormalizedNodes(args[i].G)
                mapping == ForwardMapping(nodes)
                H == relabel_nodes(nodes, NormalizedEdges(args[i].G), mapping)
            IN /\ loc' = [loc EXCEPT ![i] =
                     [@ EXCEPT !.mapping = mapping,
                               !.inverse_mapping = InverseMapping(mapping),
                               !.H = H,
                               !.bound = @ \cup {"mapping", "inverse_mapping", "H"}]]
               /\ args' = [args EXCEPT ![i] =
                     [@ EXCEPT !.G = IF @.kind = "graph"
                                     THEN [@ EXCEPT !.nodes = [j \in DOMAIN nodes |->
                                                                 mapping[nodes[j]]],
                                                    !.edges = H.edges]
                                     ELSE @]]
               /\ Goto(i, "write_graph")
               /\ UNCHANGED <<fs, exc, outcome, hist>>

Normalize(i) ==
    /\ pc[i] = "normalize"
    /\ IF args[i].G.kind = "invalid"
       THEN /\ RaiseInTry(i, Exc("TypeError", "mapping"), hist[i])
            /\ UNCHANGED <<fs, args, loc, outcome>>
       ELSE LET nodes == NormalizedNodes(args[i].G)
                mapping == ForwardMapping(nodes)
            IN /\ loc' = [loc EXCEPT ![i] =
                     [@ EXCEPT !.mapping = mapping,
                               !.inverse_mapping = InverseMapping(mapping),
                               !.H = relabel_nodes(nodes, NormalizedEdges(args[i].G),
                                                   mapping),
                               !.bound = @ \cup {"mapping", "inverse_mapping", "H"}]]
               /\ Goto(i, "write_graph")
               /\ UNCHANGED <<fs, args, exc, outcome, hist>>

(* ---------------------- lines 133-134 ---------------------------------- *)
(* nx.write_pajek opens the file for writing, then writes: it succeeds, or
   fails before the file exists, or fails leaving a partial file *)
WriteGraph(i) ==
    /\ pc[i] = "write_graph"
    /\ \E name \in temp_filename(i) :
        LET path == name \o ".net"
            l == [loc[i] EXCEPT !.temp_graph_filename = path,
                                !.bound = @ \cup {"temp_graph_filename"}]
            h == [Touch(i, path) EXCEPT !.created = @ \cup {path}]
        IN /\ loc' = [loc EXCEPT ![i] = l]
           /\ \/ /\ fs' = WriteFile(fs, path, File(i, "graph", TRUE, <<>>, loc[i].H))
                 /\ hist' = [hist EXCEPT ![i] = h]
                 /\ Goto(i, "build_command")
                 /\ UNCHANGED <<args, exc, outcome>>
              \/ /\ CanFail(i)
                 /\ fs' = WriteFile(fs, path, File(i, "graph", FALSE, <<>>, NoGraph))
                 /\ RaiseInTry(i, Exc("OSError", "write_graph"), Failed(h))
                 /\ UNCHANGED <<args, outcome>>
              \/ /\ CanFail(i)
                 /\ RaiseInTry(i, Exc("OSError", "write_graph"), Failed(hist[i]))
                 /\ UNCHANGED <<fs, args, outcome>>

(* ---------------------- lines 136-196 ---------------------------------- *)
BuildCommandStep(i) ==
    /\ pc[i] = "build_command"
    /\ \E name \in temp_filename(i) :
        LET out == name \o ".coords"
        IN loc' = [loc EXCEPT ![i] =
                [@ EXCEPT !.output_filename = out,
                          !.command = BuildCommand(args[i].cfg,
                                                   loc[i].temp_graph_filename, out),
                          !.bound = @ \cup {"output_filename", "command"}]]
    /\ Goto(i, "write_pos")
    /\ UNCHANGED <<fs, args, exc, outcome, hist>>


(* ---------------------- lines 198-208 ---------------------------------- *)
(* coordinates the caller supplied for a label *)
PosCoord(label) == 200 + label

(* the exception the loop of lines 201-205 raises, NoExc when it completes *)
PosLoopError(pos, mapping, dim) ==
    IF pos.keys = <<>> THEN NoExc
    ELSE IF dim = 3 /\ pos.len < 3
         THEN IF pos.keys[1] \in DOMAIN mapping
              THEN Exc("IndexError", "write_pos")
              ELSE Exc("KeyError", "write_pos")
         ELSE IF \E j \in DOMAIN pos.keys : pos.keys[j] \notin DOMAIN mapping
              THEN Exc("KeyError", "write_pos")
              ELSE NoExc

PosRows(pos, mapping) ==
    [j \in DOMAIN pos.keys |-> [id |-> mapping[pos.keys[j]], xy |-> PosCoord(pos.keys[j])]]

(* the position file is opened before the labels are looked up *)
WritePos_FileFirst(i) ==
    /\ pc[i] = "write_pos"
    /\ IF ~args[i].pos.given
       THEN /\ Goto(i, "engine")
            /\ UNCHANGED <<fs, args, loc, exc, outcome, hist>>
       ELSE \E name \in temp_filename(i) :
        LET path == name \o ".csv"
            l == [loc[i] EXCEPT !.temp_pos_filename = path,
                                !.bound = @ \cup {"temp_pos_filename"}]
            err == PosLoopError(args[i].pos, loc[i].mapping, args[i].cfg.dim)
            h == [Touch(i, path) EXCEPT !.created = @ \cup {path}]
        IN IF err # NoExc
           THEN /\ fs' = WriteFile(fs, path, File(i, "pos", FALSE, <<>>, NoGraph))
                /\ loc' = [loc EXCEPT ![i] = l]
                /\ RaiseInTry(i, err, h)
                /\ UNCHANGED <<args, outcome>>
           ELSE /\ fs' = WriteFile(fs, path,
                           File(i, "pos", TRUE,
                                PosRows(args[i].pos, loc[i].mapping), NoGraph))
                /\ loc' = [loc EXCEPT ![i] =
                             [l EXCEPT !.command = @ \o <<"--coords", path>>]]
                /\ hist' = [hist EXCEPT ![i] = h]
                /\ Goto(i, "engine")
                /\ UNCHANGED <<args, exc, outcome>>

WritePos(i) ==
    /\ pc[i] = "write_pos"
    /\ IF ~args[i].pos.given
       THEN /\ Goto(i, "engine")
            /\ UNCHANGED <<fs, args, loc, exc, outcome, hist>>
       ELSE \E name \in temp_filename(i) :
        LET path == name \o ".csv"
            l == [loc[i] EXCEPT !.temp_pos_filename = path,
                                !.bound = @ \cup {"temp_pos_filename"}]
            err == PosLoopError(args[i].pos, loc[i].mapping, args[i].cfg.dim)
            h == [Touch(i, path) EXCEPT !.created = @ \cup {path}]
        IN IF err # NoExc
           THEN /\ loc' = [loc EXCEPT ![i] = l]
                /\ RaiseInTry(i, err, hist[i])
                /\ UNCHANGED <<fs, args, outcome>>
           ELSE \/ /\ fs' = WriteFile(fs, path,
                              File(i, "pos", TRUE,
                                   PosRows(args[i].pos, loc[i].mapping), NoGraph))
                   /\ loc' = [loc EXCEPT ![i] =
                                [l EXCEPT !.command = @ \o <<"--coords", path>>]]
                   /\ hist' = [hist EXCEPT ![i] = h]
                   /\ Goto(i, "engine")
                   /\ UNCHANGED <<args, exc, outcome>>
                \/ /\ CanFail(i)
                   /\ fs' = WriteFile(fs, path, File(i, "pos", FALSE, <<>>, NoGraph))
                   /\ loc' = [loc EXCEPT ![i] = l]
                   /\ RaiseInTry(i, Exc("OSError", "write_pos"), Failed(h))
                   /\ UNCHANGED <<args, outcome>>
                \/ /\ CanFail(i)
                   /\ loc' = [loc EXCEPT ![i] = l]
                   /\ RaiseInTry(i, Exc("OSError", "write_pos"), Failed(hist[i]))
                   /\ UNCHANGED <<fs, args, outcome>>

(* ---------------------- line 210: subprocess.check_call ---------------- *)
(* the engine is a black box: where it puts node k is its own business; the
   model lets it put the node with index k at a coordinate that names k *)
EngineCoord(k) == 100 + k

(* what the engine may write to <output>.txt for a graph of n nodes: rows
   keyed by distinct indices, in any order, possibly too few or one too many *)
EngineRows(n) ==
    {[j \in DOMAIN s |-> [id |-> s[j], xy |-> EngineCoord(s[j])]] :
        s \in {t \in SeqsUpTo(0 .. n, n + 1) : Distinct(t)}}

(* the process cannot be started (java not on the PATH) *)
EngineLaunchFails(i) ==
    /\ pc[i] = "engine"
    /\ CanFail(i)
    /\ RaiseInTry(i, Exc("FileNotFoundError", "engine"), Failed(hist[i]))
    /\ UNCHANGED <<fs, args, loc, outcome>>

(* the engine started without waiting for it to exit *)
EngineLaunch_NoWait(i) ==
    /\ pc[i] = "engine"
    /\ hist' = [hist EXCEPT ![i] = [@ EXCEPT !.launches = @ + 1]]
    /\ Goto(i, "parse")
    /\ UNCHANGED <<fs, args, loc, exc, outcome>>

EngineLaunch(i) ==
    /\ pc[i] = "engine"
    /\ hist' = [hist EXCEPT ![i] = [@ EXCEPT !.launches = @ + 1]]
    /\ Goto(i, "engine_running")
    /\ UNCHANGED <<fs, args, loc, exc, outcome>>

EngineInput(i) == ArgOf(loc[i].command, "--input")
EngineOutput(i) == ArgOf(loc[i].command, "--output")

(* a non-zero exit answered by starting the engine again *)
EngineExitNonZero_Retry(i) ==
    /\ pc[i] = "engine_running"
    /\ CanFail(i) \/ ~Exists(EngineInput(i))
    /\ LET h0 == [Touch(i, EngineInput(i)) EXCEPT !.exits = @ + 1]
           h == IF Exists(EngineInput(i)) THEN Failed(h0) ELSE h0
       IN /\ fs' = fs
          /\ hist' = [hist EXCEPT ![i] = h]
          /\ Goto(i, "engine")
    /\ UNCHANGED <<args, loc, exc, outcome>>

(* the engine exits non-zero, because its environment fails it or because
   its input file is gone; it may have left output files behind *)
EngineExitNonZero(i) ==
    /\ pc[i] = "engine_running"
    /\ CanFail(i) \/ ~Exists(EngineInput(i))
    /\ LET txt == EngineOutput(i) \o ".txt"
           dist == EngineOutput(i) \o ".distances.txt"
           h0 == [Touch(i, EngineInput(i)) EXCEPT !.exits = @ + 1]
           h == IF Exists(EngineInput(i)) THEN Failed(h0) ELSE h0
       IN \/ /\ fs' = fs
             /\ RaiseInTry(i, Exc("CalledProcessError", "engine"), h)
          \/ /\ fs' = WriteFile(fs, txt, File(i, "coords", FALSE, <<>>, NoGraph))
             /\ RaiseInTry(i, Exc("CalledProcessError", "engine"),
                           [h EXCEPT !.created = @ \cup {txt}])
          \/ /\ fs' = WriteFile(WriteFile(fs, txt, File(i, "coords", FALSE, <<>>, NoGraph)),
                                dist, File(i, "distances", TRUE, <<>>, NoGraph))
             /\ RaiseInTry(i, Exc("CalledProcessError", "engine"),
                           [h EXCEPT !.created = @ \cup {txt, dist}])
    /\ UNCHANGED <<args, loc, outcome>>

(* the rows of a complete output for n nodes, in index order *)
CompleteRows(n) == [j \in 1 .. n |-> [id |-> j - 1, xy |-> EngineCoord(j - 1)]]

(* the engine exits 0, having read its input file *)
EngineExitZero(i) ==
    /\ pc[i] = "engine_running"
    /\ Exists(EngineInput(i))
    /\ LET txt == EngineOutput(i) \o ".txt"
           dist == EngineOutput(i) \o ".distances.txt"
           n == Cardinality(fs[EngineInput(i)].graph.nodes)
           h == [Touch(i, EngineInput(i)) EXCEPT !.exits = @ + 1]
       IN \/ \E rows \in EngineRows(n), withDist \in BOOLEAN :
                LET f1 == WriteFile(fs, txt, File(i, "coords", TRUE, rows, NoGraph))
                    h1 == [h EXCEPT !.created =
                                @ \cup (IF withDist THEN {txt, dist} ELSE {txt})]
                IN /\ rows # CompleteRows(n) => CanFail(i)
                   /\ fs' = IF withDist
                            THEN WriteFile(f1, dist, File(i, "distances", TRUE, <<>>, NoGraph))
                            ELSE f1
                   /\ hist' = [hist EXCEPT ![i] =
                                 IF rows # CompleteRows(n) THEN Failed(h1) ELSE h1]
          \/ /\ CanFail(i)
             /\ fs' = WriteFile(fs, txt, File(i, "coords", FALSE, <<>>, NoGraph))
             /\ hist' = [hist EXCEPT ![i] = Failed([h EXCEPT !.created = @ \cup {txt}])]
          \/ /\ CanFail(i)
             /\ fs' = fs
             /\ hist' = [hist EXCEPT ![i] = Failed(h)]
    /\ Goto(i, "parse")
    /\ UNCHANGED <<args, loc, exc, outcome>>

(* ---------------------- line 212: pd.read_csv -------------------------- *)
(* index_col=0 makes the first column the frame's index; .values keeps the
   remaining columns only, in file order *)
Values(rows) == [j \in DOMAIN rows |-> rows[j].xy]

Parse(i) ==
    /\ pc[i] = "parse"
    /\ LET path == loc[i].output_filename \o ".txt"
       IN IF ~Exists(path)
          THEN /\ RaiseInTry(i, Exc("FileNotFoundError", "parse"), hist[i])
               /\ UNCHANGED loc
          ELSE IF ~fs[path].ok
          THEN /\ RaiseInTry(i, Exc("ParserError", "parse"), Touch(i, path))
               /\ UNCHANGED loc
          ELSE /\ loc' = [loc EXCEPT ![i] =
                            [@ EXCEPT !.coordinates = Values(fs[path].rows),
                                      !.bound = @ \cup {"coordinates"}]]
               /\ hist' = [hist EXCEPT ![i] =
                            [Touch(i, path) EXCEPT !.parsed = fs[path].rows]]
               /\ Goto(i, "rm_pos")
               /\ UNCHANGED exc
    /\ UNCHANGED <<fs, args, outcome>>


(* ---------------------- lines 214-221: removal on the success path ----- *)
(* os.remove(path) inside the try body: removes the file, or raises (the
   file is absent, or the removal is refused) *)
RemoveInTry(i, path, next) ==
    \/ /\ Exists(path)
       /\ fs' = RemoveFile(fs, path)
       /\ hist' = [hist EXCEPT ![i] = Touch(i, path)]
       /\ Goto(i, next)
       /\ UNCHANGED exc
    \/ /\ Exists(path)
       /\ CanFail(i)
       /\ fs' = fs
       /\ RaiseInTry(i, Exc("PermissionError", "remove"), Refused(hist[i]))
    \/ /\ ~Exists(path)
       /\ fs' = fs
       /\ RaiseInTry(i, Exc("FileNotFoundError", "remove"), hist[i])

(* lines 214-215 *)
RemovePosInTry(i) ==
    /\ pc[i] = "rm_pos"
    /\ IF args[i].pos.given
       THEN RemoveInTry(i, loc[i].temp_pos_filename, "rm_graph")
       ELSE Goto(i, "rm_graph") /\ UNCHANGED <<fs, exc, hist>>
    /\ UNCHANGED <<args, loc, outcome>>

(* line 217 *)
RemoveGraphInTry(i) ==
    /\ pc[i] = "rm_graph"
    /\ RemoveInTry(i, loc[i].temp_graph_filename, "rm_output")
    /\ UNCHANGED <<args, loc, outcome>>

(* line 218 *)
RemoveOutputInTry(i) ==
    /\ pc[i] = "rm_output"
    /\ RemoveInTry(i, loc[i].output_filename \o ".txt", "rm_distances")
    /\ UNCHANGED <<args, loc, outcome>>

(* lines 220-221 *)
RemoveDistancesInTry(i) ==
    /\ pc[i] = "rm_distances"
    /\ LET path == loc[i].output_filename \o ".distances.txt"
       IN IF Exists(path)
          THEN \/ /\ fs' = RemoveFile(fs, path)
                  /\ hist' = [hist EXCEPT ![i] = Touch(i, path)]
                  /\ Goto(i, "result")
                  /\ UNCHANGED exc
               \/ /\ CanFail(i)
                  /\ fs' = fs
                  /\ RaiseInTry(i, Exc("PermissionError", "remove"), Refused(hist[i]))
          ELSE Goto(i, "result") /\ UNCHANGED <<fs, exc, hist>>
    /\ UNCHANGED <<args, loc, outcome>>

(* ---------------------- lines 223-225: the returned dict --------------- *)
(* {inverse_mapping[i]: x for i, x in enumerate(coordinates)} *)
PositionMap(inverse_mapping, coordinates) ==
    LET idx == 0 .. Len(coordinates) - 1
    IN [l \in {inverse_mapping[j] : j \in idx} |->
          coordinates[(CHOOSE j \in idx :
                          /\ inverse_mapping[j] = l
                          /\ \A m \in idx : inverse_mapping[m] = l => m <= j) + 1]]

BuildResult(i) ==
    /\ pc[i] = "result"
    /\ IF \E j \in 0 .. Len(loc[i].coordinates) - 1 : j \notin DOMAIN loc[i].inverse_mapping
       THEN /\ RaiseInTry(i, Exc("KeyError", "result"), hist[i])
            /\ UNCHANGED outcome
       ELSE /\ outcome' = [outcome EXCEPT ![i] =
                    [@ EXCEPT !.value = PositionMap(loc[i].inverse_mapping,
                                                    loc[i].coordinates)]]
            /\ Goto(i, "finally")
            /\ UNCHANGED <<exc, hist>>
    /\ UNCHANGED <<fs, args, loc>>

(* ---------------------- lines 228-240: finally ------------------------- *)
(* line 229: the list of paths is built before the loop starts; a name that
   was never assigned raises UnboundLocalError out of the finally clause *)
(* the engine's output files left out of the list *)
FinallyPaths_GraphOnly(i) ==
    <<loc[i].temp_graph_filename>>

FinallyPaths(i) ==
    <<loc[i].temp_graph_filename,
      loc[i].output_filename \o ".txt",
      loc[i].output_filename \o ".distances.txt">>

FinallyList(i) ==
    /\ pc[i] = "finally"
    /\ IF {"temp_graph_filename", "output_filename"} \subseteq loc[i].bound
       THEN /\ loc' = [loc EXCEPT ![i] = [@ EXCEPT !.k = 1]]
            /\ Goto(i, "finally_rm")
            /\ UNCHANGED <<exc, outcome>>
       ELSE /\ Leave(i, Exc("UnboundLocalError", "finally"))
            /\ UNCHANGED loc
    /\ UNCHANGED <<fs, args, hist>>

NextPath(i) ==
    IF loc[i].k < Len(FinallyPaths(i))
    THEN /\ loc' = [loc EXCEPT ![i] = [@ EXCEPT !.k = @ + 1]]
         /\ Goto(i, "finally_rm")
    ELSE /\ loc' = loc
         /\ Goto(i, "finally_pos")

(* lines 230-231, one iteration of the for loop *)
FinallyRemove(i) ==
    /\ pc[i] = "finally_rm"
    /\ LET path == FinallyPaths(i)[loc[i].k]
       IN IF ~Exists(path)
          THEN NextPath(i) /\ UNCHANGED <<fs, exc, outcome, hist>>
          ELSE \/ /\ fs' = RemoveFile(fs, path)
                  /\ hist' = [hist EXCEPT ![i] = Touch(i, path)]
                  /\ NextPath(i)
                  /\ UNCHANGED <<exc, outcome>>
               \/ /\ CanFail(i)
                  /\ fs' = fs
                  /\ hist' = [hist EXCEPT ![i] = Refused(@)]
                  /\ Leave(i, Exc("PermissionError", "finally"))
                  /\ UNCHANGED loc
    /\ UNCHANGED args

(* a KeyboardInterrupt delivered during an iteration of the for loop, before
   or after the file is unlinked, leaves the finally clause *)
FinallyRemoveInterrupted(i) ==
    /\ pc[i] = "finally_rm"
    /\ CanFail(i)
    /\ LET path == FinallyPaths(i)[loc[i].k]
       IN \/ /\ Exists(path)
             /\ fs' = RemoveFile(fs, path)
             /\ hist' = [hist EXCEPT ![i] = Interrupted(Touch(i, path))]
          \/ /\ fs' = fs
             /\ hist' = [hist EXCEPT ![i] = Interrupted(@)]
    /\ Leave(i, Exc("KeyboardInterrupt", "finally"))
    /\ UNCHANGED <<args, loc>>

(* the handler of line 239 narrowed to OSError: the unassigned name escapes *)
FinallyPos_OSErrorOnly(i) ==
    /\ pc[i] = "finally_pos"
    /\ LET path == loc[i].temp_pos_filename
       IN IF "temp_pos_filename" \notin loc[i].bound
          THEN /\ Leave(i, Exc("UnboundLocalError", "finally"))
               /\ UNCHANGED <<fs, hist>>
          ELSE /\ IF Exists(path)
                  THEN \/ /\ fs' = RemoveFile(fs, path)
                          /\ hist' = [hist EXCEPT ![i] = Touch(i, path)]
                       \/ /\ CanFail(i)
                          /\ fs' = fs
                          /\ hist' = [hist EXCEPT ![i] = Refused(@)]
                  ELSE UNCHANGED <<fs, hist>>
               /\ Leave(i, exc[i])
    /\ UNCHANGED <<args, loc>>

(* lines 233-240: one pass of the while loop that ends in a break *)
FinallyPos(i) ==
    /\ pc[i] = "finally_pos"
    /\ LET path == loc[i].temp_pos_filename
       IN IF "temp_pos_filename" \in loc[i].bound /\ Exists(path)
          THEN \/ /\ fs' = RemoveFile(fs, path)
                  /\ hist' = [hist EXCEPT ![i] = Touch(i, path)]
               \/ /\ CanFail(i)
                  /\ fs' = fs
                  /\ hist' = [hist EXCEPT ![i] = Refused(@)]
          ELSE UNCHANGED <<fs, hist>>
    /\ Leave(i, exc[i])
    /\ UNCHANGED <<args, loc>>

(* lines 237-238: a KeyboardInterrupt inside the try of the while loop,
   before or after the file is unlinked, starts another pass *)
FinallyPosInterrupted(i) ==
    /\ pc[i] = "finally_pos"
    /\ CanFail(i)
    /\ LET path == loc[i].temp_pos_filename
       IN \/ /\ "temp_pos_filename" \in loc[i].bound /\ Exists(path)
             /\ fs' = RemoveFile(fs, path)
             /\ hist' = [hist EXCEPT ![i] = Interrupted(Touch(i, path))]
          \/ /\ fs' = fs
             /\ hist' = [hist EXCEPT ![i] = Interrupted(@)]
    /\ UNCHANGED <<args, pc, loc, exc, outcome>>

(* ---------------------------- specification ---------------------------- *)
Step(i) ==
    \/ Normalize(i)
    \/ WriteGraph(i)
    \/ BuildCommandStep(i)
    \/ WritePos(i)
    \/ EngineLaunchFails(i)
    \/ EngineLaunch(i)
    \/ EngineExitNonZero(i)
    \/ EngineExitZero(i)
    \/ Parse(i)
    \/ RemovePosInTry(i)
    \/ RemoveGraphInTry(i)
    \/ RemoveOutputInTry(i)
    \/ RemoveDistancesInTry(i)
    \/ BuildResult(i)
    \/ FinallyList(i)
    \/ FinallyRemove(i)
    \/ FinallyRemoveInterrupted(i)
    \/ FinallyPos(i)
    \/ FinallyPosInterrupted(i)

Next == \E i \in Procs : Step(i)

(* every graph-like input, no initial positions, default configuration *)
GraphSlice ==
    {[G |-> g, pos |-> NoPos, cfg |-> DefaultConfig, budget |-> MaxFaults,
      names |-> {"tmpa"}] :
        g \in GraphInputs \cup CollectionInputs \cup {InvalidInput}}

(* every initial-position mapping in both dimensions, on two graphs *)
PosSlice ==
    {[G |-> g, pos |-> p, cfg |-> [DefaultConfig EXCEPT !.dim = d],
      budget |-> MaxFaults, names |-> {"tmpa"}] :
        g \in {[kind |-> "graph", nodes |-> <<1, 0>>, edges |-> {<<1, 0>>}],
               [kind |-> "collection", nodes |-> <<MaxNodes, MaxNodes>>, edges |-> {}]},
        p \in PosInputs,
        d \in {2, 3}}

(* every configuration, with and without initial positions, on the one-node
   graph in an environment that works *)
ConfigInputs ==
    {[iterations |-> it, threshold |-> th, directed |-> di, dim |-> d,
      splits |-> sp, theta |-> 1, update_iter |-> 1, update_center |-> uc,
      jitter_tolerance |-> 1, lin_log_mode |-> ll, repulsion |-> re,
      gravity |-> 1, strong_gravity_mode |-> sg,
      outbound_attraction_distribution |-> oa, n_jobs |-> 4, seed |-> se] :
        it \in {50, 10000}, th \in {None, Some(0), Some(1)}, di \in BOOLEAN, d \in {2, 3},
        sp \in {None, Some(2)}, uc \in BOOLEAN, ll \in BOOLEAN,
        re \in {None, Some(0)}, sg \in BOOLEAN, oa \in BOOLEAN,
        se \in {None, Some(0)}}

ConfigSlice ==
    {[G |-> [kind |-> "graph", nodes |-> <<0>>, edges |-> {}], pos |-> p, cfg |-> c,
      budget |-> 0, names |-> {"tmpa"}] :
        p \in {NoPos, [given |-> TRUE, keys |-> <<0>>, len |-> 3]},
        c \in ConfigInputs}

MainInputs == GraphSlice \cup PosSlice \cup ConfigSlice

Init == InitWith({1}, [i \in Procs |-> MainInputs])

Spec == Init /\ [][Next]_vars


(* two invocations running concurrently in the same working directory; the
   environment may fail the first invocation, not the second *)
ConcInputs(i) ==
    LET g == [kind |-> "graph", nodes |-> <<i>>, edges |-> {}]
        b == IF i = 1 THEN MaxFaults ELSE 0
    IN IF i = 1
       THEN {[G |-> g, pos |-> NoPos, cfg |-> DefaultConfig, budget |-> b,
              names |-> TempNames],
             [G |-> g, pos |-> [given |-> TRUE, keys |-> <<1>>, len |-> 2],
              cfg |-> DefaultConfig, budget |-> b, names |-> TempNames],
             [G |-> g, pos |-> [given |-> TRUE, keys |-> <<0>>, len |-> 2],
              cfg |-> DefaultConfig, budget |-> b, names |-> TempNames],
             [G |-> InvalidInput, pos |-> NoPos, cfg |-> DefaultConfig, budget |-> b,
              names |-> TempNames]}
       ELSE {[G |-> g, pos |-> NoPos, cfg |-> DefaultConfig, budget |-> b,
              names |-> TempNames]}

InitConc == InitWith(Procs, [i \in Procs |-> ConcInputs(i)])

SpecConc == InitConc /\ [][Next]_vars

(* two invocations of the same process, in any order or overlapping, the
   first of which may meet one fault of its environment *)
PairInputs(i) ==
    {[a EXCEPT !.budget = IF i = 1 THEN 1 ELSE 0] : a \in ConcInputs(i)}

InitPair == InitWith(Procs, [i \in Procs |-> PairInputs(i)])

SpecPair == InitPair /\ [][Next]_vars


(* ---------------------------- properties ------------------------------- *)
Done(i) == pc[i] = "done"

Returned(i) == outcome[i].status = "returned"

Raised(i) == outcome[i].status = "raised"

(* files this invocation (or its engine) created that are still on disk *)
Leftover(i) == hist[i].created \cap DOMAIN fs

(* no removal was refused and no interruption arrived during cleanup *)
CleanupUndisturbed(i) == ~hist[i].rmFault /\ hist[i].intr = 0

(* C1: after any invocation has left fa2_layout (return or raise, with a
   failure forced at any pipeline stage and removals themselves working),
   none of its temp files remains on disk *)
C1_NoTempFileRemains ==
    \A i \in Procs : Done(i) /\ CleanupUndisturbed(i) => Leftover(i) = {}

(* C2: when a step fails, the error the caller receives is the originating
   error of that step; nothing raised in cleanup replaces it *)
C2_OriginatingErrorSurfaces ==
    \A i \in Procs :
        Done(i) /\ hist[i].origErr # NoExc /\ hist[i].intr = 0
            => Raised(i) /\ outcome[i].error = hist[i].origErr

(* C3: a normal return carries exactly one entry per node of G, and an
   output whose row count differs from the node count is never returned *)
C3_ResultCoversNodes ==
    \A i \in Procs :
        Returned(i) =>
            /\ DOMAIN outcome[i].value = Range(args[i].G.nodes)
            /\ Len(hist[i].parsed) = Cardinality(Range(args[i].G.nodes))

(* C4: each parsed row's coordinates are returned under the label that the
   inverse mapping gives to the index written in that row *)
C4_RowLabelledByItsIndex ==
    \A i \in Procs :
        Returned(i) =>
            \A j \in DOMAIN hist[i].parsed :
                LET row == hist[i].parsed[j]
                IN /\ row.id \in DOMAIN loc[i].inverse_mapping
                   /\ outcome[i].value[loc[i].inverse_mapping[row.id]] = row.xy


(* C5: when the engine exits non-zero (and cleanup is not itself disturbed)
   the caller gets the engine-invocation error and every file created so
   far, engine leftovers included, is gone *)
C5_EngineFailureCleansUp ==
    \A i \in Procs :
        /\ Done(i)
        /\ hist[i].origErr = Exc("CalledProcessError", "engine")
        /\ CleanupUndisturbed(i)
        => /\ Raised(i)
           /\ outcome[i].error = Exc("CalledProcessError", "engine")
           /\ Leftover(i) = {}

C5_Witness ==
    \E i \in Procs :
        /\ Done(i) /\ Raised(i) /\ CleanupUndisturbed(i)
        /\ outcome[i].error = Exc("CalledProcessError", "engine")
        /\ args[i].pos.given
        /\ Cardinality(hist[i].created) = 4
        /\ Leftover(i) = {}

(* the caller's pos has a key that is not a node of G *)
HasUnknownKey(i) ==
    /\ args[i].G.kind # "invalid"
    /\ args[i].pos.given
    /\ \E j \in DOMAIN args[i].pos.keys : args[i].pos.keys[j] \notin Range(args[i].G.nodes)

(* C6: initial positions naming a label that is not a node make the call
   fail in the position serializer: never a normal return, no engine launch,
   no position file, and, the environment not failing, the error the caller
   gets is the one raised while serializing the positions *)
C6_UnknownPosLabelFails ==
    \A i \in Procs :
        Done(i) /\ HasUnknownKey(i) =>
            /\ Raised(i)
            /\ hist[i].launches = 0
            /\ loc[i].temp_pos_filename \notin hist[i].created
            /\ hist[i].faults = 0 =>
                 /\ outcome[i].error.stage = "write_pos"
                 /\ outcome[i].error.kind \in {"KeyError", "IndexError"}

C6_Witness ==
    \E i \in Procs :
        /\ Done(i) /\ HasUnknownKey(i)
        /\ Len(args[i].pos.keys) >= 2
        /\ args[i].pos.keys[1] \in Range(args[i].G.nodes)
        /\ outcome[i].error = Exc("KeyError", "write_pos")
        /\ hist[i].created # {}
        /\ hist[i].launches = 0

Count(cmd, tok) == Cardinality({j \in DOMAIN cmd : cmd[j] = tok})

Follows(cmd, name, val) ==
    \E j \in 1 .. Len(cmd) - 1 : cmd[j] = name /\ cmd[j + 1] = val

(* C7: the argument vector carries exactly one stopping mode: --nsteps
   <iterations> alone when threshold is None, else --targetChangePerNode
   <threshold> and --targetSteps <iterations> without --nsteps *)
C7_ExactlyOneStoppingMode ==
    \A i \in Procs :
        "command" \in loc[i].bound =>
            LET cmd == loc[i].command
                cfg == args[i].cfg
            IN IF ~cfg.threshold.some
               THEN /\ Count(cmd, "--nsteps") = 1
                    /\ Follows(cmd, "--nsteps", Str(cfg.iterations))
                    /\ Count(cmd, "--targetChangePerNode") = 0
                    /\ Count(cmd, "--targetSteps") = 0
               ELSE /\ Count(cmd, "--targetChangePerNode") = 1
                    /\ Follows(cmd, "--targetChangePerNode", Str(cfg.threshold.v))
                    /\ Count(cmd, "--targetSteps") = 1
                    /\ Follows(cmd, "--targetSteps", Str(cfg.iterations))
                    /\ Count(cmd, "--nsteps") = 0

C7_Witness ==
    \E i \in Procs :
        /\ pc[i] = "engine_running"
        /\ args[i].cfg.threshold = Some(0)
        /\ args[i].cfg.seed.some /\ args[i].cfg.directed
        /\ Follows(loc[i].command, "--targetChangePerNode", "0")
        /\ Follows(loc[i].command, "--targetSteps", "10000")

(* C8: a refused removal is never fatal: once the engine has exited 0 and
   its output has been parsed into no more rows than there are nodes, the
   call returns the PositionMap unless it is interrupted *)
C8_RemovalFailureNotFatal ==
    \A i \in Procs :
        /\ Done(i)
        /\ "coordinates" \in loc[i].bound
        /\ Len(loc[i].coordinates) <= Cardinality(DOMAIN loc[i].mapping)
        /\ hist[i].intr = 0
        => Returned(i)

FirstIndex(s, l) ==
    CHOOSE j \in DOMAIN s : s[j] = l /\ \A m \in 1 .. j - 1 : s[m] # l

(* C9: the index mapping is a bijection between the nodes of G and
   0..|nodes|-1, numbered from 0 in order of first encounter, and the
   inverse mapping undoes it *)
C9_MappingIsBijection ==
    \A i \in Procs :
        "mapping" \in loc[i].bound =>
            LET raw == args[i].G.nodes
                labels == Range(raw)
                n == Cardinality(labels)
                m == loc[i].mapping
                inv == loc[i].inverse_mapping
            IN /\ DOMAIN m = labels
               /\ DOMAIN inv = 0 .. n - 1
               /\ {m[l] : l \in labels} = 0 .. n - 1
               /\ \A a, b \in labels : a # b => m[a] # m[b]
               /\ \A l \in labels : inv[m[l]] = l
               /\ \A a, b \in labels :
                    FirstIndex(raw, a) < FirstIndex(raw, b) => m[a] < m[b]

C9_Witness ==
    \E i \in Procs :
        /\ "mapping" \in loc[i].bound
        /\ args[i].G.kind = "collection"
        /\ Len(args[i].G.nodes) > Cardinality(Range(args[i].G.nodes))
        /\ \E l \in DOMAIN loc[i].mapping :
              /\ l < Cardinality(DOMAIN loc[i].mapping)
              /\ loc[i].mapping[l] # l
              /\ loc[i].inverse_mapping[loc[i].mapping[l]] = l

(* C10: two concurrent invocations never generate the same temp path, and
   none writes, reads or removes a file of the other *)
C10_TempPathsDistinct ==
    \A i, j \in Procs :
        i # j => /\ hist[i].created \cap hist[j].created = {}
                 /\ ~hist[i].foreign


(* name occurs exactly once in cmd when cond holds and never otherwise *)
FlagIff(cmd, name, cond) == Count(cmd, name) = (IF cond THEN 1 ELSE 0)

(* name occurs, once and followed by the rendering of o's value, exactly
   when o is present *)
OptIff(cmd, name, o) ==
    /\ FlagIff(cmd, name, o.some)
    /\ o.some => Follows(cmd, name, Str(o.v))

(* C11: the argument vector handed to the engine carries each conditional
   flag exactly when its condition holds, each value right after its option,
   and --coords <position file> exactly when a position file was written *)
C11_ConditionalFlags ==
    \A i \in Procs :
        pc[i] \in {"engine", "engine_running"} =>
            LET cmd == loc[i].command
                cfg == args[i].cfg
                posFile == loc[i].temp_pos_filename
                produced == posFile \in hist[i].created
            IN /\ FlagIff(cmd, "--2d", cfg.dim = 2)
               /\ OptIff(cmd, "--seed", cfg.seed)
               /\ OptIff(cmd, "--barnesHutSplits", cfg.splits)
               /\ FlagIff(cmd, "--updateCenter", cfg.update_center)
               /\ FlagIff(cmd, "--linLogMode", cfg.lin_log_mode)
               /\ OptIff(cmd, "--scalingRatio", cfg.repulsion)
               /\ FlagIff(cmd, "--strongGravityMode", cfg.strong_gravity_mode)
               /\ FlagIff(cmd, "--outboundAttractionDistribution",
                          cfg.outbound_attraction_distribution)
               /\ FlagIff(cmd, "--directed", cfg.directed)
               /\ FlagIff(cmd, "--coords", produced)
               /\ produced => Follows(cmd, "--coords", posFile)
               /\ produced <=> args[i].pos.given

C11_Witness ==
    \E i \in Procs :
        /\ pc[i] = "engine_running"
        /\ args[i].cfg.dim = 3
        /\ args[i].cfg.seed = Some(0) /\ ~args[i].cfg.splits.some
        /\ args[i].cfg.lin_log_mode /\ ~args[i].cfg.update_center
        /\ Follows(loc[i].command, "--seed", "0")
        /\ Follows(loc[i].command, "--coords", "tmpa.csv")
        /\ Count(loc[i].command, "--2d") = 0


(* C12: for a bare collection of labels the graph file written for the
   engine holds one node per distinct label, numbered 0..n-1, and no edge *)
C12_CollectionSerialized ==
    \A i \in Procs :
        LET path == loc[i].temp_graph_filename
            labels == Range(args[i].G.nodes)
        IN /\ args[i].G.kind = "collection"
           /\ path \in hist[i].created
           /\ Exists(path) /\ fs[path].owner = i /\ fs[path].ok
           => /\ Cardinality(fs[path].graph.nodes) = Cardinality(labels)
              /\ fs[path].graph.nodes = 0 .. Cardinality(labels) - 1
              /\ fs[path].graph.nodes = {loc[i].mapping[l] : l \in labels}
              /\ fs[path].graph.edges = {}

C12_Witness ==
    \E i \in Procs :
        LET path == loc[i].temp_graph_filename
        IN /\ args[i].G.kind = "collection"
           /\ Len(args[i].G.nodes) = 3
           /\ Cardinality(Range(args[i].G.nodes)) = 2
           /\ pc[i] = "engine_running"
           /\ Exists(path) /\ fs[path].ok
           /\ fs[path].graph = [nodes |-> {0, 1}, edges |-> {}]


(* the file at path was written completely by invocation i and is on disk *)
WrittenOk(i, path) ==
    /\ path \in hist[i].created
    /\ Exists(path) /\ fs[path].owner = i /\ fs[path].ok

(* C13: the engine is launched at most once per invocation and only after
   the graph file and, when positions were supplied, the position file were
   written successfully; the output file is parsed only after the engine
   exited with status 0; a failed write of the graph or position file means
   the engine is never launched *)
C13_EngineLaunchedOnceInOrder ==
    \A i \in Procs :
        /\ hist[i].launches <= 1
        /\ hist[i].exits <= hist[i].launches
        /\ pc[i] = "engine_running" =>
              /\ hist[i].launches = 1 /\ hist[i].exits = 0
              /\ WrittenOk(i, loc[i].temp_graph_filename)
              /\ args[i].pos.given => WrittenOk(i, loc[i].temp_pos_filename)
        /\ (pc[i] = "parse" \/ "coordinates" \in loc[i].bound) =>
              /\ hist[i].launches = 1 /\ hist[i].exits = 1
              /\ pc[i] = "parse" => hist[i].origErr = NoExc
              /\ hist[i].origErr.stage \notin {"mapping", "write_graph",
                                               "write_pos", "engine"}
        /\ hist[i].origErr.stage \in {"mapping", "write_graph", "write_pos"} =>
              hist[i].launches = 0
        /\ hist[i].origErr.kind = "CalledProcessError" =>
              /\ pc[i] \notin {"engine", "engine_running", "parse"}
              /\ "coordinates" \notin loc[i].bound

C13_Witness ==
    \E i \in Procs :
        /\ Done(i) /\ Raised(i)
        /\ args[i].pos.given
        /\ hist[i].origErr = Exc("CalledProcessError", "engine")
        /\ hist[i].launches = 1 /\ hist[i].exits = 1
        /\ hist[i].faults < args[i].budget


(* C14: an interruption that arrives while cleanup is removing a tracked
   file makes that removal be retried, so a cleanup that was interrupted,
   and in which no removal was refused, ends with no tracked file on disk
   and without the interruption leaving the call *)
C14_InterruptedRemovalRetried ==
    \A i \in Procs :
        /\ Done(i)
        /\ hist[i].intr > 0
        /\ ~hist[i].rmFault
        => /\ Leftover(i) = {}
           /\ outcome[i].error.kind # "KeyboardInterrupt"


(* C15: when no initial positions are supplied, the removal in cleanup of
   the position file that was never created raises nothing and leaves the
   outcome as it was: with cleanup otherwise undisturbed, a run with no
   error in the try body returns its PositionMap, and a run that failed at
   the engine or parse stage raises that stage's error *)
C15_MissingPosFileHarmless ==
    \A i \in Procs :
        /\ Done(i)
        /\ ~args[i].pos.given
        /\ CleanupUndisturbed(i)
        => /\ "temp_pos_filename" \notin loc[i].bound
           /\ hist[i].origErr = NoExc =>
                 /\ Returned(i)
                 /\ outcome[i].value = PositionMap(loc[i].inverse_mapping,
                                                   loc[i].coordinates)
           /\ hist[i].origErr.stage \in {"engine", "parse"} =>
                 /\ Raised(i)
                 /\ outcome[i].error = hist[i].origErr

C15_Witness ==
    \E i \in Procs :
        /\ Done(i)
        /\ ~args[i].pos.given
        /\ "temp_pos_filename" \notin loc[i].bound
        /\ hist[i].origErr = NoExc
        /\ Returned(i)
        /\ DOMAIN outcome[i].value # {}


(* the step removes the file at path *)
Removes(path) == path \in DOMAIN fs /\ path \notin DOMAIN fs'

C16_Step ==
    \A i \in Procs :
        /\ pc'[i] = "engine_running" =>
              /\ loc'[i].temp_graph_filename \in DOMAIN fs'
              /\ args'[i].pos.given => loc'[i].temp_pos_filename \in DOMAIN fs'
        /\ \A path \in DOMAIN fs :
              Removes(path) /\ fs[path].owner = i =>
                  /\ pc[i] \notin {"engine", "engine_running", "parse"}
                  /\ hist[i].exits = hist[i].launches
                  /\ hist[i].launches = 0 => hist[i].origErr # NoExc
                  /\ (path = loc[i].output_filename \o ".txt"
                        /\ hist[i].origErr = NoExc) =>
                          "coordinates" \in loc[i].bound

(* C16: no temp file of an invocation is removed before its engine process
   has terminated, the graph file and the position file are on disk for the
   whole engine run, and on the success path the output coordinate file is
   read before it is removed *)
C16_NoRemovalBeforeEngineExit == [][C16_Step]_vars

C16_Witness ==
    \E i \in Procs :
        /\ Done(i) /\ Returned(i)
        /\ args[i].pos.given
        /\ hist[i].launches = 1 /\ hist[i].exits = 1
        /\ "coordinates" \in loc[i].bound
        /\ {loc[i].temp_graph_filename, loc[i].temp_pos_filename,
            loc[i].output_filename \o ".txt"} \subseteq hist[i].created
        /\ Leftover(i) = {}


(* the candidate paths of an invocation, from its own draws of a name *)
OwnPaths(i, ext) == {name \o ext : name \in temp_filename(i)}

C17_Step ==
    \A i \in Procs :
        /\ args'[i].G = args[i].G
        /\ args'[i].pos = args[i].pos
        /\ "mapping" \in loc'[i].bound =>
              /\ loc'[i].mapping = ForwardMapping(NormalizedNodes(args[i].G))
              /\ loc'[i].mapping = ForwardMapping(NormalizedNodes(args'[i].G))
        /\ "temp_graph_filename" \in loc'[i].bound =>
              loc'[i].temp_graph_filename \in OwnPaths(i, ".net")
        /\ "output_filename" \in loc'[i].bound =>
              loc'[i].output_filename \in OwnPaths(i, ".coords")
        /\ "temp_pos_filename" \in loc'[i].bound =>
              loc'[i].temp_pos_filename \in OwnPaths(i, ".csv")

(* C17: no step of fa2_layout changes the caller's graph G or the caller's
   position mapping pos, on success or failure, and an invocation's index
   mapping and temp paths are determined by its own arguments and its own
   draws of a name, whatever other invocations did before it *)
C17_InputsUntouched == [][C17_Step]_vars

C17_Witness ==
    /\ Done(1) /\ Raised(1)
    /\ Done(2) /\ Returned(2)
    /\ args[1].pos.given
    /\ args[2].G.kind = "graph"
    /\ loc[2].mapping = ForwardMapping(args[2].G.nodes)
    /\ \E l \in DOMAIN loc[2].mapping : l # loc[2].mapping[l]

====
